---- MODULE Spec2Model ----
(***************************************************************************)
(* A model of app.py, the Streamlit script of the saju-analysis            *)
(* repository: the reference-table loader, the bridge and composite        *)
(* lookups, the calendar resolver, the webhook notification, the report    *)
(* exporter's text cleaning and the script's button handlers.              *)
(*                                                                         *)
(* TEXT.  A Python str is modelled as a sequence of characters.  TLA+      *)
(* strings are ASCII, so each Hangul syllable is written by its            *)
(* romanisation and is one character of the sequence: the day pillar       *)
(* "무술" is <<"mu","sul">>.  Dictionary keys and opaque texts that the    *)
(* code only compares for equality are TLA+ strings, romanised:            *)
(*   "비견(比肩)" bigyeon      "겁재(劫財)" geopjae                        *)
(*   "묘(墓)" myo   "건록(建祿)" geonrok   "제왕(帝旺)" jewang             *)
(*   "건록격(建祿格)" geonrokgyeok   "양인격(陽刃格)" yangingyeok           *)
(*   "자수성가형 명조" jasuseongga    "미입력" miipryeok                    *)
(*   "모름" moreum                                                         *)
(* A Python dict is a TLA+ function on its key set, {} the function with   *)
(* the empty domain.                                                       *)
(***************************************************************************)
EXTENDS Integers, Sequences, FiniteSets, TLC

VARIABLES
    files,      \* the five storage files on disk: "missing", "malformed" or a table
    cache,      \* st.cache_data's entry for load_all_databases(): <<>> or <<tables>>
    reads,      \* how many times the body of load_all_databases has run
    dbs,        \* the module global dbs of the latest run: <<>> or <<tables>>
    calendar,   \* what KoreanLunarCalendar does for each choice of birth widgets
    session,    \* st.session_state, a dict
    owner,      \* the u_name for which session's generated_report was produced
    widgets,    \* the form's widget values, kept by Streamlit between reruns
    last,       \* what the latest script run did
    fn_in,      \* the arguments of a pure function under check
    fn_out      \* <<>> before the call, <<result>> after it

vars == <<files, calendar, cache, reads, dbs, session, owner, widgets, last, fn_in, fn_out>>
appVars == <<files, calendar, cache, reads, dbs, session, owner, widgets, last>>

----------------------------------------------------------------------------
(* Python helpers *)

EmptyDict == [k \in {} |-> 0]

\* d.get(k, default)
DictGet(d, k, default) == IF k \in DOMAIN d THEN d[k] ELSE default

\* sub in s, for str
IsSubstring(sub, s) ==
    \E i \in 0..(Len(s) - Len(sub)) :
        \A j \in 1..Len(sub) : s[i + j] = sub[j]

\* s.replace(c, '') for a one-character c
RemoveChar(s, c) == SelectSeq(s, LAMBDA ch : ch # c)

Digit(n) == CASE n = 0 -> "0" [] n = 1 -> "1" [] n = 2 -> "2" [] n = 3 -> "3"
              [] n = 4 -> "4" [] n = 5 -> "5" [] n = 6 -> "6" [] n = 7 -> "7"
              [] n = 8 -> "8" [] n = 9 -> "9"

RECURSIVE NatStr(_)
NatStr(n) == IF n < 10 THEN <<Digit(n)>> ELSE NatStr(n \div 10) \o <<Digit(n % 10)>>

\* f"{n}" for an int: its decimal digits, a minus sign before a negative one
IntStr(n) == IF n < 0 THEN <<"-">> \o NatStr(-n) ELSE NatStr(n)

\* Python's a % k for k > 0: the result has the sign of k
PyMod(a, k) == a % k

----------------------------------------------------------------------------
(* 4. ILJU_BRIDGE, get_json_info and the Annual-Fortune key *)

Musul == <<"mu", "sul">>
Gyeongsin == <<"gyeong", "sin">>
Imja == <<"im", "ja">>

ILJU_BRIDGE ==
    (Musul :> [sipsin |-> "bigyeon", unseong |-> "myo", gyeok |-> "geonrokgyeok"])
    @@ (Gyeongsin :> [sipsin |-> "bigyeon", unseong |-> "geonrok", gyeok |-> "yangingyeok"])
    @@ (Imja :> [sipsin |-> "geopjae", unseong |-> "jewang", gyeok |-> "yangingyeok"])

BridgeDefault == [sipsin |-> "bigyeon", unseong |-> "myo", gyeok |-> "geonrokgyeok"]

\* A JSON string value and a JSON object value of the gyeok table, whose
\* values are heterogeneous.
JStr(s) == [t |-> "str", v |-> s]
JObj(o) == [t |-> "obj", v |-> o]

GyeokFallback == JStr("jasuseongga")

\* A bridge whose fallback is the 경신 entry instead of the literal default.
resolveBridge_otherDefault(ilju_name) == DictGet(ILJU_BRIDGE, ilju_name, ILJU_BRIDGE[Gyeongsin])

\* ILJU_BRIDGE.get(ilju_name, {...})
resolveBridge(ilju_name) == DictGet(ILJU_BRIDGE, ilju_name, BridgeDefault)

\* next((v for v in table.values() if ilju_name in v.get('ilju', '')), {})
\* table: the values of the dict in insertion order.
RECURSIVE FirstMatch(_, _)
FirstMatch(table, ilju_name) ==
    IF table = <<>> THEN EmptyDict
    ELSE IF IsSubstring(ilju_name, DictGet(Head(table), "ilju", <<>>))
         THEN Head(table)
         ELSE FirstMatch(Tail(table), ilju_name)

get_json_info(tables, ilju_name) ==
    LET ilju_basic == FirstMatch(DictGet(tables, "ilju", <<>>), ilju_name)
        bridge == resolveBridge(ilju_name)
        sipsin_info == DictGet(DictGet(tables, "sipsin", EmptyDict), bridge.sipsin, EmptyDict)
        unseong_info == DictGet(DictGet(tables, "unseong", EmptyDict), bridge.unseong, EmptyDict)
        gyeok_info == DictGet(DictGet(tables, "gyeok", EmptyDict), bridge.gyeok, GyeokFallback)
    IN  [ilju_info |-> ilju_basic, sipsin_info |-> sipsin_info,
         unseong_info |-> unseong_info, gyeok_info |-> gyeok_info, bridge |-> bridge]

\* A key without the "+ 1" on its last component.
tid_zeroBased(y, m, d) ==
    IntStr(PyMod(y + m, 8) + 1) \o IntStr(PyMod(m + d, 6) + 1) \o IntStr(PyMod(d + y, 3))

\* tid = f"{(y_val+m_val)%8+1}{(m_val+d_val)%6+1}{(d_val+y_val)%3+1}"
tid(y, m, d) ==
    IntStr(PyMod(y + m, 8) + 1) \o IntStr(PyMod(m + d, 6) + 1) \o IntStr(PyMod(d + y, 3) + 1)

\* A lookup that subscripts the table: dbs['tojeong'][tid]['full_content'].
tojeong_lookup_subscript(tables, key) ==
    IF key \in DOMAIN DictGet(tables, "tojeong", EmptyDict)
       /\ "full_content" \in DOMAIN tables["tojeong"][key]
    THEN [raised |-> FALSE, text |-> tables["tojeong"][key]["full_content"]]
    ELSE [raised |-> TRUE, text |-> ""]

\* dbs.get('tojeong', {}).get(tid, {"full_content": ""})['full_content']
\* [raised, text]: subscripting an entry that has no 'full_content' raises KeyError.
tojeong_lookup(tables, key) ==
    LET entry == DictGet(DictGet(tables, "tojeong", EmptyDict), key, [full_content |-> ""])
    IN  IF "full_content" \in DOMAIN entry
        THEN [raised |-> FALSE, text |-> entry["full_content"]]
        ELSE [raised |-> TRUE, text |-> ""]

----------------------------------------------------------------------------
(* 3. generate_pdf: the text cleaning *)

\* The characters of a report text: the 8-character literal ":orange[" is the
\* single character OPEN (it overlaps neither itself nor any other
\* character here), "nl" is a line break, "x" any other character.
OPEN == ":orange["
NL == "nl"

\* The least j >= from with s[j..j+2] = "**]" and no line break in s[from..j-1]
\* (the lazy (.*?) followed by \*\*\]; '.' does not match a line break); 0 if none.
RECURSIVE LazyEnd(_, _)
LazyEnd(s, j) ==
    IF j + 2 > Len(s) THEN 0
    ELSE IF s[j] = "*" /\ s[j + 1] = "*" /\ s[j + 2] = "]" THEN j
    ELSE IF s[j] = NL THEN 0
    ELSE LazyEnd(s, j + 1)

\* re.sub(r':orange\[\*\*(.*?)\*\*\]', r'\1', s), scanning from position i
RECURSIVE SubDirective(_, _)
SubDirective(s, i) ==
    IF i > Len(s) THEN <<>>
    ELSE IF i + 2 <= Len(s) /\ s[i] = OPEN /\ s[i + 1] = "*" /\ s[i + 2] = "*"
              /\ LazyEnd(s, i + 3) # 0
         THEN LET j == LazyEnd(s, i + 3)
              IN  SubSeq(s, i + 3, j - 1) \o SubDirective(s, j + 3)
         ELSE <<s[i]>> \o SubDirective(s, i + 1)

\* s.replace("**", ""), scanning from position i
RECURSIVE RemoveBold(_, _)
RemoveBold(s, i) ==
    IF i > Len(s) THEN <<>>
    ELSE IF i + 1 <= Len(s) /\ s[i] = "*" /\ s[i + 1] = "*"
         THEN RemoveBold(s, i + 2)
         ELSE <<s[i]>> \o RemoveBold(s, i + 1)

clean_text(report_text) == RemoveBold(SubDirective(report_text, 1), 1)

----------------------------------------------------------------------------
(* 2. load_all_databases under @st.cache_data *)

\* f_map's keys
Tables == {"ilju", "tojeong", "sipsin", "gyeok", "unseong"}

\* A storage file: absent, present with content json.load rejects, or present
\* with a table.
Missing == [st |-> "missing"]
Malformed == [st |-> "malformed"]
Json(table) == [st |-> "json", v |-> table]

\* The body of load_all_databases: os.path.exists, json.load (which raises on
\* malformed content), {} for a missing file.
read_files(f) ==
    IF \E k \in Tables : f[k].st = "malformed"
    THEN [raised |-> TRUE, tables |-> EmptyDict]
    ELSE [raised |-> FALSE,
          tables |-> [k \in Tables |-> IF f[k].st = "missing" THEN EmptyDict ELSE f[k].v]]

\* A load_all_databases whose stored value expires at once: the body runs at
\* every call.
load_refreshing(c, f) ==
    LET r == read_files(f)
    IN  [raised |-> r.raised, tables |-> r.tables, executed |-> TRUE,
         cache |-> IF r.raised THEN <<>> ELSE <<r.tables>>]

\* load_all_databases(): st.cache_data returns the stored value when there is
\* one, without running the body; otherwise it runs the body and stores what
\* the body returns (nothing when the body raises).
load_all_databases(c, f) ==
    IF c # <<>>
    THEN [raised |-> FALSE, tables |-> c[1], executed |-> FALSE, cache |-> c]
    ELSE LET r == read_files(f)
         IN  [raised |-> r.raised, tables |-> r.tables, executed |-> TRUE,
              cache |-> IF r.raised THEN <<>> ELSE <<r.tables>>]

----------------------------------------------------------------------------
(* 4. get_saju_pillars *)

\* str.split(): the maximal runs of non-blank characters
RECURSIVE SplitFrom(_, _, _)
SplitFrom(s, i, cur) ==
    IF i > Len(s) THEN (IF cur = <<>> THEN <<>> ELSE <<cur>>)
    ELSE IF s[i] = " "
         THEN (IF cur = <<>> THEN <<>> ELSE <<cur>>) \o SplitFrom(s, i + 1, <<>>)
         ELSE SplitFrom(s, i + 1, Append(cur, s[i]))

Split(s) == SplitFrom(s, 1, <<>>)

\* A resolver that fills the slots it cannot parse with '' instead of failing.
get_saju_pillars_lenient(lib, h_str) ==
    LET parts == IF lib.raised THEN <<>> ELSE Split(lib.gapja)
        slot(i, unit) == IF i <= Len(parts) THEN RemoveChar(parts[i], unit) ELSE <<>>
    IN  << [year |-> slot(1, "nyeon"), month |-> slot(2, "wol"),
            day |-> slot(3, "il"), hour |-> h_str] >>

\* get_saju_pillars: lib is what setSolarDate/setLunarDate and getGapJaString
\* did, an exception or the string returned.  <<>> is None.
get_saju_pillars(lib, h_str) ==
    IF lib.raised THEN <<>>
    ELSE LET parts == Split(lib.gapja)
         IN  IF Len(parts) < 3 THEN <<>>
             ELSE << [year |-> RemoveChar(parts[1], "nyeon"),
                      month |-> RemoveChar(parts[2], "wol"),
                      day |-> RemoveChar(parts[3], "il"),
                      hour |-> h_str] >>

----------------------------------------------------------------------------
(* 5. sync_to_n8n *)

\* A sync_to_n8n without the try/except around requests.post.
sync_to_n8n_unguarded(action_type, payload, outcome) ==
    [raised |-> outcome # "ok",
     request |-> [action |-> action_type, payload |-> payload, outcome |-> outcome]]

\* sync_to_n8n: outcome is what requests.post did ("ok", "error" for a
\* connection error, "timeout" after 5 s); the bare except swallows both.
sync_to_n8n(action_type, payload, outcome) ==
    [raised |-> FALSE,
     request |-> [action |-> action_type, payload |-> payload, outcome |-> outcome]]

----------------------------------------------------------------------------
(* The script's conditions and formatted strings *)

\* f"{n:02d}"
Pad2(n) == IF 0 <= n /\ n < 10 THEN <<"0">> \o IntStr(n) ELSE IntStr(n)

\* user_unique_id = f"{u_name}_{y_val}{m_val:02d}{d_val:02d}_{h_input.replace(':', '')}"
user_unique_id(w) ==
    w.u_name \o <<"_">> \o IntStr(w.y_val) \o Pad2(w.m_val) \o Pad2(w.d_val)
        \o <<"_">> \o RemoveChar(w.h_input, ":")

\* f"{y_val}-{m_val:02d}-{d_val:02d}"
birth(w) == IntStr(w.y_val) \o <<"-">> \o Pad2(w.m_val) \o <<"-">> \o Pad2(w.d_val)

\* if pillars:
pillars_ok(pillars) == pillars # <<>>

name_given_always(u_name) == TRUE

\* if not u_name: ... else:
name_given(u_name) == u_name # <<>>

subscribe_allowed_placeholder(u_name, u_telegram) == u_name # <<>> /\ u_telegram # <<>>

\* if u_name and u_telegram and u_telegram != "@":
subscribe_allowed(u_name, u_telegram) ==
    u_name # <<>> /\ u_telegram # <<>> /\ u_telegram # <<"@">>

----------------------------------------------------------------------------
(* The report handler, the download section and the subscription handler *)

\* What a script run has done so far: the calls made in order, the requests
\* posted, the prompt assembled, the download offered, whether an exception
\* ended the run, and the session's report with the name it was made for.
RunStart(report, own) ==
    [events |-> <<>>, sent |-> <<>>, prompt |-> <<>>, download |-> <<>>,
     uncaught |-> FALSE, report |-> report, owner |-> own]

\* The payload of the "save_user" notification (lines 154-157)
save_user_payload(w, pillars) ==
    [user_id |-> user_unique_id(w), name |-> w.u_name, birth |-> birth(w),
     hour |-> w.h_input,
     telegram |-> IF w.u_telegram # <<>> THEN w.u_telegram ELSE <<"mi", "ip", "ryeok">>,
     ilju |-> pillars.day, subscribed |-> "FALSE"]

\* The data the prompt embeds (lines 159-164)
assemble_prompt(w, pillars, info, tojeong) ==
    [name |-> w.u_name, pillars |-> pillars, ilju |-> info.ilju_info,
     sipsin |-> info.sipsin_info, unseong |-> info.unseong_info,
     gyeok |-> info.gyeok_info, tojeong |-> tojeong]

\* Lines 159-167, after sync_to_n8n returned or raised (n).  mdl: what
\* model.generate_content(prompt).text does, an exception or a text.
report_after_notify(w, mdl, st, prompt, n) ==
    IF n.raised
    THEN [st EXCEPT !.events = @ \o <<"lookup", "notify">>,
                    !.sent = @ \o <<n.request>>, !.uncaught = TRUE]
    ELSE IF mdl.raised
    THEN [st EXCEPT !.events = @ \o <<"lookup", "notify", "prompt", "model">>,
                    !.sent = @ \o <<n.request>>, !.prompt = <<prompt>>,
                    !.uncaught = TRUE]
    ELSE [st EXCEPT !.events = @ \o <<"lookup", "notify", "prompt", "model",
                                      "store", "markdown">>,
                    !.sent = @ \o <<n.request>>, !.prompt = <<prompt>>,
                    !.report = mdl.text, !.owner = w.u_name]

\* Lines 152-167, after get_json_info returned info and the tojeong lookup
\* returned or raised (tj).  net: what requests.post does.
report_after_lookup(w, pillars, net, mdl, st, info, tj) ==
    IF tj.raised
    THEN [st EXCEPT !.events = @ \o <<"lookup">>, !.uncaught = TRUE]
    ELSE report_after_notify(w, mdl, st, assemble_prompt(w, pillars, info, tj.text),
                             sync_to_n8n("save_user", save_user_payload(w, pillars), net))

\* Lines 146-167: the handler of the report button
report_handler(w, pillars, tables, net, mdl, st) ==
    IF ~name_given(w.u_name)
    THEN [st EXCEPT !.events = @ \o <<"warning">>]
    ELSE report_after_lookup(w, pillars, net, mdl, st,
                             get_json_info(tables, pillars.day),
                             tojeong_lookup(tables, tid(w.y_val, w.m_val, w.d_val)))

\* generate_pdf: the title line and the cleaned body; pdf is what the FPDF
\* calls do ("ok", or "raise" for a font or encoding error).
generate_pdf(report_text, user_name, pdf) ==
    [raised |-> pdf = "raise",
     title |-> <<"[">> \o user_name \o <<"nim", "]">>,
     body |-> clean_text(report_text)]

\* Lines 173-181, after generate_pdf returned or raised (doc)
offer_download(w, st, doc) ==
    IF doc.raised
    THEN [st EXCEPT !.events = @ \o <<"export", "export_error">>]
    ELSE [st EXCEPT !.events = @ \o <<"export", "download_button">>,
                    !.download = << [user_name |-> w.u_name, title |-> doc.title,
                                     body |-> doc.body,
                                     file_name |-> w.u_name \o <<"_", "report.pdf">>] >>]

\* Lines 170-181
download_section(w, pdf, st) ==
    IF st.report = <<>> THEN st
    ELSE offer_download(w, st, generate_pdf(st.report, w.u_name, pdf))

\* Lines 188-189, after sync_to_n8n returned or raised (n)
subscribe_after_notify(st, n) ==
    IF n.raised
    THEN [st EXCEPT !.events = @ \o <<"notify">>, !.sent = @ \o <<n.request>>,
                    !.uncaught = TRUE]
    ELSE [st EXCEPT !.events = @ \o <<"notify", "success">>,
                    !.sent = @ \o <<n.request>>]

\* Lines 186-191: the handler of the subscription button
subscription_handler(w, net, st) ==
    IF subscribe_allowed(w.u_name, w.u_telegram)
    THEN subscribe_after_notify(st,
             sync_to_n8n("subscribe",
                 [user_id |-> user_unique_id(w), telegram |-> w.u_telegram,
                  subscribed |-> "TRUE"],
                 net))
    ELSE [st EXCEPT !.events = @ \o <<"error">>]

\* Lines 183-191, unless an exception ended the run before
subscription_section(button, w, net, st) ==
    IF st.uncaught \/ button # "subscribe" THEN st
    ELSE subscription_handler(w, net, st)

\* Lines 169-191, unless an exception ended the run before
after_report(button, w, net, pdf, st) ==
    IF st.uncaught THEN st
    ELSE subscription_section(button, w, net, download_section(w, pdf, st))

\* Lines 141-191: everything under "if pillars:".  button is the button whose
\* press caused this run, "none" for any other rerun.
page_body(button, w, pillars, tables, net, mdl, pdf, st) ==
    IF ~pillars_ok(pillars) THEN st
    ELSE after_report(button, w, net, pdf,
                      IF button = "generate"
                      THEN report_handler(w, pillars[1], tables, net, mdl, st)
                      ELSE st)

----------------------------------------------------------------------------
(* The environment: storage contents, widget values, and what the external *)
(* calls do                                                                *)

MaxReads == 3

IljuFull ==
    << [ilju |-> <<"gap", "ja", "(", ")">>, text |-> "i1"],
       [ilju |-> <<"mu", "sul", "(", ")">>, text |-> "i2"],
       [ilju |-> <<"mu", "sul">>, text |-> "i3"] >>
IljuPartial ==
    << [text |-> "i4"],
       [ilju |-> <<"gyeong", "sin">>, text |-> "i5"] >>

SipsinFull == ("bigyeon" :> [desc |-> "s1"]) @@ ("geopjae" :> [desc |-> "s2"])
SipsinPartial == "bigyeon" :> [desc |-> "s1"]

UnseongFull ==
    ("myo" :> [desc |-> "u2"]) @@ ("geonrok" :> [desc |-> "u1"]) @@ ("jewang" :> [desc |-> "u3"])
UnseongPartial == "geonrok" :> [desc |-> "u1"]

GyeokFull == ("geonrokgyeok" :> JObj([desc |-> "g2"])) @@ ("yangingyeok" :> JStr("g3"))
GyeokPartial == "geonrokgyeok" :> JStr("g1")

\* TojeongFull's second entry has no 'full_content'.
TojeongFull ==
    (tid(1976, 4, 16) :> [full_content |-> "t1"]) @@ (tid(1977, 4, 16) :> [title |-> "t2"])
TojeongPartial == tid(1976, 4, 16) :> [full_content |-> "t1"]

StoreNone == [k \in Tables |-> Missing]
StoreFull ==
    [ilju |-> Json(IljuFull), tojeong |-> Json(TojeongFull), sipsin |-> Json(SipsinFull),
     gyeok |-> Json(GyeokFull), unseong |-> Json(UnseongFull)]
StoreBroken == [StoreFull EXCEPT !.gyeok = Malformed]

Storages == {StoreNone, StoreFull, StoreBroken}

Names == {<<>>, <<"A">>, <<"B">>}
Telegrams == {<<>>, <<"@">>, <<"@", "u">>}
\* A choice of the calendar, date and hour widgets: the defaults (양력,
\* 1976-04-16, 11:00) and one other.
Births ==
    { [cal_type |-> "solar", y_val |-> 1976, m_val |-> 4, d_val |-> 16,
       h_input |-> <<"1", "1", ":", "0", "0">>],
      [cal_type |-> "lunar", y_val |-> 1977, m_val |-> 4, d_val |-> 16,
       h_input |-> <<"mo", "reum">>] }

\* KoreanLunarCalendar for given arguments: an exception, a well-formed string
\* ("병진년 임진월 무술일") or a string of fewer than three parts.
LibOutcomes ==
    { [raised |-> TRUE, gapja |-> <<>>],
      [raised |-> FALSE,
       gapja |-> <<"byeong", "jin", "nyeon", " ", "im", "jin", "wol", " ", "mu", "sul", "il">>],
      [raised |-> FALSE, gapja |-> <<"byeong", "jin", "nyeon">>] }

NetOutcomes == {"ok", "error", "timeout"}

\* model.generate_content(prompt).text: an exception, an empty text, or a
\* report with a styling directive.
ModelOutcomes ==
    { [raised |-> TRUE, text |-> <<>>],
      [raised |-> FALSE, text |-> <<>>],
      [raised |-> FALSE, text |-> <<"x", OPEN, "*", "*", "x", "*", "*", "]">>] }

PdfOutcomes == {"ok", "raise"}

----------------------------------------------------------------------------
(* The script run and the interactions that cause one *)

\* The state of a fresh process and session: nothing cached, an empty
\* session state, the widgets at their defaults (lines 112-124).  The library
\* is a function of its arguments, the same at every call.
AppInit ==
    /\ files \in Storages
    /\ calendar \in [Births -> LibOutcomes]
    /\ cache = <<>>
    /\ reads = 0
    /\ dbs = <<>>
    /\ session = EmptyDict
    /\ owner = <<>>
    /\ widgets = [u_name |-> <<>>, u_telegram |-> <<>>, cal_type |-> "solar",
                  y_val |-> 1976, m_val |-> 4, d_val |-> 16,
                  h_input |-> <<"1", "1", ":", "0", "0">>]
    /\ last = [button |-> "init", load_raised |-> FALSE, cache_hit |-> FALSE,
               lib |-> <<>>, pillars |-> <<>>, report_before |-> <<>>,
               events |-> <<>>, sent |-> <<>>, prompt |-> <<>>, download |-> <<>>,
               uncaught |-> FALSE, form |-> FALSE, gen_button |-> FALSE,
               sub_button |-> FALSE]

Init ==
    /\ AppInit
    /\ fn_in = <<>>
    /\ fn_out = <<>>

\* The application at rest, for the specifications of single functions.
AppIdle ==
    /\ AppInit
    /\ files = StoreNone
    /\ \A b \in Births : calendar[b].raised

\* One run of the script from line 37 to its end, with widget values w.
\* The end of a run that passed line 37: what it leaves in the session and
\* on the page.
finish_run(button, lib, pillars, ld, report, st) ==
    /\ dbs' = <<ld.tables>>
    /\ session' = ("generated_report" :> st.report)
    /\ owner' = st.owner
    /\ last' = [button |-> button, load_raised |-> FALSE,
                cache_hit |-> ~ld.executed, lib |-> <<lib>>,
                pillars |-> pillars, report_before |-> report,
                events |-> st.events, sent |-> st.sent,
                prompt |-> st.prompt, download |-> st.download,
                uncaught |-> st.uncaught, form |-> TRUE,
                gen_button |-> pillars_ok(pillars),
                sub_button |-> pillars_ok(pillars) /\ ~st.uncaught]

\* Lines 106-191, with the pillars line 139 computed
run_page(button, w, lib, net, mdl, pdf, ld, report, pillars) ==
    finish_run(button, lib, pillars, ld, report,
               page_body(button, w, pillars, ld.tables, net, mdl, pdf,
                         RunStart(report, owner)))

\* Lines 37-191, with the result ld of load_all_databases().  An exception
\* at line 37 ends the run there.
run_script(button, w, lib, net, mdl, pdf, ld, report) ==
    /\ ld.executed => reads < MaxReads
    /\ reads' = IF ld.executed THEN reads + 1 ELSE reads
    /\ cache' = ld.cache
    /\ widgets' = w
    /\ UNCHANGED <<files, calendar, fn_in, fn_out>>
    /\ IF ld.raised
       THEN /\ dbs' = <<>>
            /\ UNCHANGED <<session, owner>>
            /\ last' = [button |-> button, load_raised |-> TRUE,
                        cache_hit |-> FALSE, lib |-> <<>>, pillars |-> <<>>,
                        report_before |-> report, events |-> <<>>, sent |-> <<>>,
                        prompt |-> <<>>, download |-> <<>>, uncaught |-> TRUE,
                        form |-> FALSE, gen_button |-> FALSE, sub_button |-> FALSE]
       ELSE run_page(button, w, lib, net, mdl, pdf, ld, report,
                     get_saju_pillars(lib, w.h_input))

BirthOf(w) ==
    [cal_type |-> w.cal_type, y_val |-> w.y_val, m_val |-> w.m_val, d_val |-> w.d_val,
     h_input |-> w.h_input]

\* One run of the script with widget values w.  The external calls are drawn
\* only where the run can reach them: requests.post after a button press, the
\* model after "generate".
Script(button, w) ==
    \E net \in IF button = "none" THEN {"ok"} ELSE NetOutcomes,
       mdl \in IF button = "generate" THEN ModelOutcomes ELSE {[raised |-> TRUE, text |-> <<>>]},
       pdf \in PdfOutcomes :
        run_script(button, w, calendar[BirthOf(w)], net, mdl, pdf,
                   load_all_databases(cache, files),
                   DictGet(session, "generated_report", <<>>))

\* The page is opened or rerun with no widget changed.
Rerun == Script("none", widgets)

EditName ==
    /\ last.form
    /\ \E n \in Names \ {widgets.u_name} : Script("none", [widgets EXCEPT !.u_name = n])

EditTelegram ==
    /\ last.form
    /\ \E t \in Telegrams \ {widgets.u_telegram} :
           Script("none", [widgets EXCEPT !.u_telegram = t])

SelectBirth ==
    /\ last.form
    /\ \E b \in Births \ {BirthOf(widgets)} :
           Script("none", [widgets EXCEPT !.cal_type = b.cal_type, !.y_val = b.y_val,
                                          !.m_val = b.m_val, !.d_val = b.d_val,
                                          !.h_input = b.h_input])

PressGenerate ==
    /\ last.gen_button
    /\ Script("generate", widgets)

PressSubscribe ==
    /\ last.sub_button
    /\ Script("subscribe", widgets)

\* The files on disk are replaced while the process runs.
StorageChange ==
    /\ \E f \in Storages \ {files} : files' = f
    /\ UNCHANGED <<calendar, cache, reads, dbs, session, owner, widgets, last, fn_in, fn_out>>

\* The interactions of a session against the storage the process started with.
Next ==
    \/ Rerun
    \/ EditName
    \/ EditTelegram
    \/ SelectBirth
    \/ PressGenerate
    \/ PressSubscribe

Spec == Init /\ [][Next]_vars

\* The same interactions while the files change under the running process.
NextLoader ==
    \/ Next
    \/ StorageChange

SpecLoader == Init /\ [][NextLoader]_vars

----------------------------------------------------------------------------
(* The Annual-Fortune key as a function of (year, month, day) *)

MaxAbs == 6

\* The form's ranges (the selectboxes for year, month and day), and integers
\* around zero on both sides of it.
Years == (-MaxAbs..MaxAbs) \cup (1951..2026)
Months == (-MaxAbs..MaxAbs) \cup (1..12)
Days == (-MaxAbs..MaxAbs) \cup (1..31)

InitKey ==
    /\ AppIdle
    /\ fn_in \in [y : Years, m : Months, d : Days]
    /\ fn_out = <<>>

ComputeKey ==
    /\ fn_out = <<>>
    /\ fn_out' = <<tid(fn_in.y, fn_in.m, fn_in.d)>>
    /\ UNCHANGED <<appVars, fn_in>>

SpecKey == InitKey /\ [][ComputeKey]_vars

----------------------------------------------------------------------------
(* The bridge and the composite lookups as functions of the day pillar,    *)
(* the reference tables and the date                                       *)

DateSpan == 1

Gapja == <<"gap", "ja">>
Designations == {Musul, Gyeongsin, Imja, Gapja, <<"mu">>, <<>>}

IljuTables == {<<>>, IljuFull, IljuPartial}
SipsinTables == {EmptyDict, SipsinFull, SipsinPartial}
UnseongTables == {EmptyDict, UnseongFull, UnseongPartial}
GyeokTables == {EmptyDict, GyeokFull, GyeokPartial}
TojeongTables == {EmptyDict, TojeongFull, TojeongPartial}

LookupYears == 1976..(1976 + DateSpan)
LookupMonths == 4..(4 + DateSpan)
LookupDays == 16..(16 + DateSpan)

InitLookup ==
    /\ AppIdle
    /\ fn_in \in [ilju_name : Designations,
                  tables : [ilju : IljuTables, tojeong : TojeongTables,
                            sipsin : SipsinTables, gyeok : GyeokTables,
                            unseong : UnseongTables],
                  y : LookupYears, m : LookupMonths, d : LookupDays]
    /\ fn_out = <<>>

\* Lines 150-152 of the report handler: the two lookups.
ComputeLookup ==
    /\ fn_out = <<>>
    /\ fn_out' = << [info |-> get_json_info(fn_in.tables, fn_in.ilju_name),
                     tojeong |-> tojeong_lookup(fn_in.tables, tid(fn_in.y, fn_in.m, fn_in.d))] >>
    /\ UNCHANGED <<appVars, fn_in>>

SpecLookup == InitLookup /\ [][ComputeLookup]_vars

----------------------------------------------------------------------------
(* The text cleaning as a function of the report text *)

MaxLen == 7

Alphabet == {OPEN, "*", "]", NL, "x"}
Texts == UNION {[1..n -> Alphabet] : n \in 0..MaxLen}

InitClean ==
    /\ AppIdle
    /\ fn_in \in Texts
    /\ fn_out = <<>>

ComputeClean ==
    /\ fn_out = <<>>
    /\ fn_out' = <<clean_text(fn_in)>>
    /\ UNCHANGED <<appVars, fn_in>>

SpecClean == InitClean /\ [][ComputeClean]_vars

----------------------------------------------------------------------------
(* Properties *)

Registered == { <<"mu", "sul">>, <<"gyeong", "sin">>, <<"im", "ja">> }

\* C1: the bridge resolution is a total function of the day pillar: the
\* registered triple for 무술, 경신 and 임자, the fixed default triple for every
\* other designation, the empty string included; the call always returns.
BridgeIsTotal ==
    /\ fn_out = <<>> => ENABLED ComputeLookup
    /\ fn_out # <<>> =>
          LET name == fn_in.ilju_name
              b == fn_out[1].info.bridge
          IN  /\ name = <<"mu", "sul">> =>
                    b = [sipsin |-> "bigyeon", unseong |-> "myo", gyeok |-> "geonrokgyeok"]
              /\ name = <<"gyeong", "sin">> =>
                    b = [sipsin |-> "bigyeon", unseong |-> "geonrok", gyeok |-> "yangingyeok"]
              /\ name = <<"im", "ja">> =>
                    b = [sipsin |-> "geopjae", unseong |-> "jewang", gyeok |-> "yangingyeok"]
              /\ name \notin Registered =>
                    b = [sipsin |-> "bigyeon", unseong |-> "myo", gyeok |-> "geonrokgyeok"]

\* The empty designation has been resolved, to the default triple.
BridgeDefaultOnEmpty ==
    /\ fn_out # <<>>
    /\ fn_in.ilju_name = <<>>
    /\ fn_out[1].info.bridge.unseong = "myo"

\* C2: for every (year, month, day) the Annual-Fortune key has exactly three
\* characters, the first in "1".."8", the second in "1".."6", the third in
\* "1".."3".
KeyHasThreeDigits ==
    fn_out # <<>> =>
        /\ Len(fn_out[1]) = 3
        /\ fn_out[1][1] \in {"1", "2", "3", "4", "5", "6", "7", "8"}
        /\ fn_out[1][2] \in {"1", "2", "3", "4", "5", "6"}
        /\ fn_out[1][3] \in {"1", "2", "3"}

\* The key of a date with negative components has been computed.
KeyOfNegativeDate ==
    /\ fn_out # <<>>
    /\ fn_in.y < 0 /\ fn_in.m < 0 /\ fn_in.d < 0
    /\ fn_out[1] = <<"8", "6", "3">>

\* C6: whichever tables are empty or lack the looked-up key, the lookups
\* return and give the literal defaults: an empty record for the base, ten-gods
\* and twelve-stage info, the string "자수성가형 명조" for the structural
\* pattern, the empty string for the annual fortune.
LookupsDegradeToDefaults ==
    /\ fn_out = <<>> => ENABLED ComputeLookup
    /\ fn_out # <<>> =>
          LET t == fn_in.tables
              r == fn_out[1].info
              key == tid(fn_in.y, fn_in.m, fn_in.d)
          IN  /\ (\A i \in DOMAIN t.ilju :
                      ~IsSubstring(fn_in.ilju_name, DictGet(t.ilju[i], "ilju", <<>>)))
                    => r.ilju_info = EmptyDict
              /\ r.bridge.sipsin \notin DOMAIN t.sipsin => r.sipsin_info = EmptyDict
              /\ r.bridge.unseong \notin DOMAIN t.unseong => r.unseong_info = EmptyDict
              /\ r.bridge.gyeok \notin DOMAIN t.gyeok =>
                    (r.gyeok_info.t = "str" /\ r.gyeok_info.v = "jasuseongga")
              /\ key \notin DOMAIN t.tojeong =>
                    (~fn_out[1].tojeong.raised /\ fn_out[1].tojeong.text = "")

\* Tables that are present and lack the looked-up keys have been consulted.
LookupMissedInPresentTables ==
    /\ fn_out # <<>>
    /\ fn_in.tables.gyeok = GyeokPartial /\ fn_out[1].info.bridge.gyeok = "yangingyeok"
    /\ fn_out[1].info.gyeok_info = JStr("jasuseongga")
    /\ fn_in.tables.tojeong = TojeongFull
    /\ tid(fn_in.y, fn_in.m, fn_in.d) \notin DOMAIN TojeongFull
    /\ fn_out[1].tojeong.text = ""
    /\ fn_in.tables.ilju = IljuPartial /\ fn_out[1].info.ilju_info = EmptyDict

\* The calls of the latest run, in order
Has(e) == \E i \in DOMAIN last.events : last.events[i] = e

StoredReport == DictGet(session, "generated_report", <<>>)

\* C3: a press of the report button with an empty name takes the warning
\* path; that run makes no lookup, posts no notification, assembles no prompt,
\* does not invoke the model and leaves the stored report as it was.
EmptyNameShortCircuits ==
    (last.button = "generate" /\ widgets.u_name = <<>>) =>
        /\ ~Has("lookup") /\ ~Has("notify") /\ ~Has("prompt")
        /\ ~Has("model") /\ ~Has("store")
        /\ last.sent = <<>>
        /\ last.prompt = <<>>
        /\ StoredReport = last.report_before
        /\ last.events # <<>> /\ last.events[1] = "warning"

\* The report button has been pressed with an empty name while a report of an
\* earlier press is stored.
WarnedWithStoredReport ==
    /\ last.button = "generate"
    /\ widgets.u_name = <<>>
    /\ Has("warning")
    /\ last.report_before # <<>>

\* C4: the subscription button posts the "subscribe" notification only when
\* the name is non-empty and the handle is non-empty and not "@"; in every
\* other case it shows an error and posts nothing.
SubscribeNeedsNameAndHandle ==
    last.button = "subscribe" =>
        IF widgets.u_name # <<>> /\ widgets.u_telegram # <<>> /\ widgets.u_telegram # <<"@">>
        THEN /\ Len(last.sent) = 1
             /\ last.sent[1].action = "subscribe"
             /\ last.sent[1].payload.telegram = widgets.u_telegram
             /\ ~Has("error")
        ELSE /\ last.sent = <<>>
             /\ Has("error")
             /\ ~Has("notify") /\ ~Has("success")

\* A named submitter has pressed the subscription button with the handle "@".
SubscribeRejectedPlaceholder ==
    /\ last.button = "subscribe"
    /\ widgets.u_name = <<"A">>
    /\ widgets.u_telegram = <<"@">>
    /\ Has("error")
    /\ last.sent = <<>>

\* The positions where a part of the library's output string begins
PartStarts(g) == {i \in DOMAIN g : g[i] # " " /\ (i = 1 \/ g[i - 1] = " ")}

\* What KoreanLunarCalendar did in the latest run makes get_saju_pillars fail:
\* the conversion raised, or its output has fewer than three parts.
ResolverFailed ==
    /\ last.lib # <<>>
    /\ (last.lib[1].raised \/ Cardinality(PartStarts(last.lib[1].gapja)) < 3)

\* C5: when get_saju_pillars fails it returns None and nothing of the pipeline
\* runs in that run: no lookup, no notification, no prompt, no model call, no
\* export, and the stored report is unchanged.
ResolverFailureStopsPipeline ==
    ResolverFailed =>
        /\ last.pillars = <<>>
        /\ last.events = <<>>
        /\ last.sent = <<>>
        /\ last.prompt = <<>>
        /\ last.download = <<>>
        /\ StoredReport = last.report_before

\* The resolver has failed for a newly selected date while a report is
\* stored: no download is offered.
ResolverFailedWithStoredReport ==
    /\ ResolverFailed
    /\ widgets.y_val = 1977
    /\ StoredReport # <<>>
    /\ last.download = <<>>

\* C7: sync_to_n8n never raises, whatever requests.post did: after the
\* "save_user" notification the prompt is assembled and the model invoked,
\* after the "subscribe" notification the success message is shown; and a
\* report press with a name whose lookups returned does post the notification.
NotificationOutcomeUnobserved ==
    /\ \A i \in DOMAIN last.events :
          last.events[i] = "notify" =>
              /\ i < Len(last.events)
              /\ last.button = "generate" =>
                    (last.events[i + 1] = "prompt" /\ Has("model"))
              /\ last.button = "subscribe" => last.events[i + 1] = "success"
    /\ Len(last.sent) = Cardinality({i \in DOMAIN last.events : last.events[i] = "notify"})
    /\ (last.button = "generate" /\ widgets.u_name # <<>> /\ Has("lookup") /\ ~last.uncaught)
           => (Has("notify") /\ Has("model"))

\* A report has been generated and stored after a notification that timed out.
ReportAfterTimedOutNotification ==
    /\ last.button = "generate"
    /\ Len(last.sent) = 1
    /\ last.sent[1].action = "save_user"
    /\ last.sent[1].outcome = "timeout"
    /\ Has("model") /\ Has("store")
    /\ StoredReport # <<>>

DownloadNamedForReportOwner ==
    last.download # <<>> =>
        /\ owner # <<>>
        /\ last.download[1].user_name = owner
        /\ last.download[1].title = <<"[">> \o owner \o <<"nim", "]">>
        /\ last.download[1].file_name = owner \o <<"_", "report.pdf">>

\* The occurrences of a directive :orange[**X**] in s: <<i, j>> where the
\* opener ":orange[**" starts at i and j is the first "**]" after it.
IsCloser(s, j) == j + 2 <= Len(s) /\ s[j] = "*" /\ s[j + 1] = "*" /\ s[j + 2] = "]"
Directives(s) ==
    {p \in (1..Len(s)) \X (1..Len(s)) :
        /\ p[1] + 2 <= Len(s)
        /\ s[p[1]] = OPEN /\ s[p[1] + 1] = "*" /\ s[p[1] + 2] = "*"
        /\ p[2] >= p[1] + 3
        /\ IsCloser(s, p[2])
        /\ \A k \in (p[1] + 3)..(p[2] - 1) : ~IsCloser(s, k)}

\* s holds directives of the form :orange[**X**], and every ":orange[" of s
\* opens one.
HoldsDirectives(s) ==
    /\ Directives(s) # {}
    /\ \A i \in DOMAIN s : s[i] = OPEN => \E p \in Directives(s) : p[1] = i

\* C9: for every report text holding directives :orange[**X**], the cleaned
\* text contains the inner text X of each directive and keeps no directive
\* syntax (":orange[" ... "]") and no bold marker "**".
CleanedTextIsPlain ==
    (fn_out # <<>> /\ HoldsDirectives(fn_in)) =>
        /\ \A p \in Directives(fn_in) :
               IsSubstring(SubSeq(fn_in, p[1] + 3, p[2] - 1), fn_out[1])
        /\ ~\E i \in DOMAIN fn_out[1] :
               /\ fn_out[1][i] = OPEN
               /\ \E j \in DOMAIN fn_out[1] : j > i /\ fn_out[1][j] = "]"
        /\ ~IsSubstring(<<"*", "*">>, fn_out[1])

====
